---- MODULE Spec2Model ----
(***************************************************************************)
(* The game state of MinesweeperGame (src/minesweeper_functions.py): the   *)
(* board dimensions, the mine set, the adjacency counts, the button grid   *)
(* (a cell is Hidden while its button is NORMAL and Revealed once it is    *)
(* DISABLED), the two end-of-game flags, and the handlers new_game and     *)
(* click with everything they call.                                        *)
(*                                                                         *)
(* The program stores no Won/Lost value: it announces the outcome with     *)
(* messagebox.showinfo ("Game Over", line 152; "You Win!", line 163).      *)
(* status is the outcome last announced for the board on screen, and       *)
(* InProgress while none has been. raised is the exception the last        *)
(* handler call ended with, and hung says that a handler never returned.   *)
(***************************************************************************)
EXTENDS Integers, Sequences, FiniteSets

\* ------------------------------------------------------------------ bounds
MaxRows == 3

MaxCols == 3

MaxMines == 2

\* rows * cols of a game is at most MaxCells.
MaxCells == 6

\* ------------------------------------------------------------------- state
VARIABLES
    rows,             \* self.rows
    cols,             \* self.cols
    num_mines,        \* self.num_mines
    board,            \* self.board[row][col], as a function of <<row, col>>
    mines,            \* self.mines, a set of <<row, col>>
    buttons,          \* self.buttons[row][col]: the widget's state, text and bg
    board_clickable,  \* self.board_clickable
    game_over_flag,   \* self.game_over_flag
    status,           \* the outcome announced by messagebox.showinfo in this game
    raised,           \* the exception the last handler call ended with
    hung,             \* the handler is inside a loop that never ends
    pc,               \* where the running handler is: idle, sampling, revealing
    pending,          \* the calls of reveal still to run, first to last
    reveals           \* the buttons the running click has disabled so far

vars == <<rows, cols, num_mines, board, mines, buttons, board_clickable,
          game_over_flag, status, raised, hung, pc, pending, reveals>>

\* The position of a handler that is followed statement by statement.
position == <<pc, pending, reveals>>

\* ----------------------------------------------------------------- helpers
\* range(R) x range(C): the cells of an R by C grid; empty when R <= 0 or C <= 0.
Cells(R, C) == (0 .. R - 1) \X (0 .. C - 1)

\* Python list indexing: a negative index counts from the end of the list.
PyIndex(len, i) == IF i < 0 THEN i + len ELSE i

\* list[i] raises IndexError unless -len <= i < len.
PyInRange(len, i) == -len <= i /\ i < len

\* A tk.Button as new_game creates it (line 60): NORMAL, no text, default bg.
NewButton == [state |-> "normal", text |-> "", bg |-> "default"]

\* str(count) for the counts reveal shows (line 138).
Str(n) == <<"1", "2", "3", "4", "5", "6", "7", "8">>[n]

\* The nine (i, j) of `for i in range(-1, 2) for j in range(-1, 2)`, in order.
Offsets ==
    << <<-1, -1>>, <<-1, 0>>, <<-1, 1>>,
       << 0, -1>>, << 0, 0>>, << 0, 1>>,
       << 1, -1>>, << 1, 0>>, << 1, 1>> >>

\* generate_mines: the values self.mines can take while the loop of lines
\* 97-99 runs. Every pass adds one cell of the grid to a set that holds fewer
\* than n cells (a cell drawn twice changes nothing).
RECURSIVE SampleFrom(_, _, _)
SampleFrom(seen, grid, n) ==
    LET more == seen \cup {chosen \cup {mine} :
                     chosen \in {s \in seen : Cardinality(s) < n}, mine \in grid}
    IN  IF more = seen THEN seen ELSE SampleFrom(more, grid, n)

\* generate_mines drawing the column with the bound of the row:
\* (randint(0, rows - 1), randint(0, rows - 1)).
generate_mines_square(R, C, n) ==
    { chosen \in SampleFrom({{}}, Cells(R, R), n) : ~(Cardinality(chosen) < n) }

\* generate_mines: the mine sets the loop can end with, those that fail its
\* condition len(self.mines) < self.num_mines. None when the grid holds fewer
\* than n cells: the loop then never ends.
generate_mines(R, C, n) ==
    { chosen \in SampleFrom({{}}, Cells(R, C), n) : ~(Cardinality(chosen) < n) }

\* update_counts with the neighbour coordinates taken modulo the grid, so that
\* a cell on an edge also counts the mines on the opposite edge.
update_counts_wrapping(R, C, mns) ==
    [cell \in Cells(R, C) |->
        IF cell \notin mns
        THEN Cardinality({k \in 1 .. 9 :
                 <<(cell[1] + Offsets[k][1]) % R,
                   (cell[2] + Offsets[k][2]) % C>> \in mns})
        ELSE 0]

\* update_counts that looks only at the four cells sharing an edge.
update_counts_orthogonal(R, C, mns) ==
    [cell \in Cells(R, C) |->
        IF cell \notin mns
        THEN Cardinality({k \in {2, 4, 6, 8} :
                 <<cell[1] + Offsets[k][1], cell[2] + Offsets[k][2]>> \in mns})
        ELSE 0]

\* update_counts: board[row][col] of every non-mine cell becomes the number of
\* (i, j) with (row + i, col + j) in the mine set; mine cells keep the 0 of
\* line 55.
update_counts(R, C, mns) ==
    [cell \in Cells(R, C) |->
        IF cell \notin mns
        THEN Cardinality({k \in 1 .. 9 :
                 <<cell[1] + Offsets[k][1], cell[2] + Offsets[k][2]>> \in mns})
        ELSE 0]

\* The in-bounds neighbours reveal recurses into (lines 141-144), in call order:
\* the (row + i, col + j) with 0 <= row + i < rows and 0 <= col + j < cols.
Neighbours(row, col) ==
    LET all == [k \in 1 .. 9 |-> <<row + Offsets[k][1], col + Offsets[k][2]>>]
        InGrid(cell) == /\ 0 <= cell[1] /\ cell[1] < rows
                        /\ 0 <= cell[2] /\ cell[2] < cols
    IN  SelectSeq(all, InGrid)

\* The calls of reveal still to run, first to last, on the button grid btns.
\* A call on a NORMAL button disables it and, when its count is 0, runs the
\* calls for its neighbours before the calls that were waiting (the recursion
\* of line 144); a call on a DISABLED button returns at line 135.
RECURSIVE RevealCalls(_, _)
RevealCalls(btns, calls) ==
    IF calls = << >> THEN btns
    ELSE LET row  == calls[1][1]
             col  == calls[1][2]
             cell == <<PyIndex(rows, row), PyIndex(cols, col)>>
         IN  IF btns[cell].state = "normal"
             THEN IF board[cell] > 0
                  THEN RevealCalls(
                           [btns EXCEPT ![cell] = [state |-> "disabled",
                                                   text  |-> Str(board[cell]),
                                                   bg    |-> "lightgreen"]],
                           Tail(calls))
                  ELSE RevealCalls(
                           [btns EXCEPT ![cell] = [@ EXCEPT !.state = "disabled",
                                                            !.bg = "lightgreen"]],
                           Neighbours(row, col) \o Tail(calls))
             ELSE RevealCalls(btns, Tail(calls))

\* reveal(row, col) raises IndexError at line 134 when an index is outside the
\* lists (a negative index inside [-len, 0) is taken from the end).
RevealRaises(row, col) == ~(PyInRange(rows, row) /\ PyInRange(cols, col))

\* reveal without the recursion: a zero-count cell reveals itself and its
\* neighbours, and the neighbours reveal nothing further.
reveal_neighbours_once(btns, row, col) ==
    LET cell == <<PyIndex(rows, row), PyIndex(cols, col)>>
        near == {Neighbours(row, col)[k] : k \in 1 .. Len(Neighbours(row, col))}
        Shown(c) == IF btns[c].state # "normal" THEN btns[c]
                    ELSE IF board[c] > 0
                    THEN [state |-> "disabled", text |-> Str(board[c]),
                          bg |-> "lightgreen"]
                    ELSE [btns[c] EXCEPT !.state = "disabled",
                                         !.bg = "lightgreen"]
    IN  IF btns[cell].state # "normal" THEN btns
        ELSE [c \in DOMAIN btns |->
                 IF c = cell \/ (board[cell] = 0 /\ c \in near)
                 THEN Shown(c) ELSE btns[c]]

\* reveal that shows the neighbours of every cell, whatever its count.
reveal_with_neighbours(btns, row, col) ==
    LET cell == <<PyIndex(rows, row), PyIndex(cols, col)>>
        near == {Neighbours(row, col)[k] : k \in 1 .. Len(Neighbours(row, col))}
        Shown(c) == IF btns[c].state # "normal" THEN btns[c]
                    ELSE IF board[c] > 0
                    THEN [state |-> "disabled", text |-> Str(board[c]),
                          bg |-> "lightgreen"]
                    ELSE [btns[c] EXCEPT !.state = "disabled",
                                         !.bg = "lightgreen"]
    IN  IF btns[cell].state # "normal" THEN btns
        ELSE [c \in DOMAIN btns |->
                 IF c = cell \/ c \in near THEN Shown(c) ELSE btns[c]]

\* reveal(row, col): the button grid after the call.
reveal(btns, row, col) == RevealCalls(btns, << <<row, col>> >>)

\* game_over with a loop that stops after its first mine.
ShowOneMine(btns) ==
    [cell \in DOMAIN btns |->
        IF mines # {} /\ cell = (CHOOSE m \in mines : TRUE)
        THEN [state |-> "disabled", text |-> "*", bg |-> "lightcoral"]
        ELSE btns[cell]]

\* game_over that redraws the grid with nothing but the mines on it.
ShowMinesOnly(btns) ==
    [cell \in DOMAIN btns |->
        IF cell \in mines
        THEN [state |-> "disabled", text |-> "*", bg |-> "lightcoral"]
        ELSE NewButton]

\* The loop of game_over (lines 150-151): every mine's button shows "*".
ShowMines(btns) ==
    [cell \in DOMAIN btns |->
        IF cell \in mines
        THEN [state |-> "disabled", text |-> "*", bg |-> "lightcoral"]
        ELSE btns[cell]]

\* unrevealed_buttons of check_win (line 161): the NORMAL buttons.
unrevealed_buttons(btns) ==
    Cardinality({cell \in DOMAIN btns : btns[cell].state = "normal"})

\* ----------------------------------------------------------------- actions
\* game_over (lines 146-154).
game_over ==
    /\ buttons' = ShowMines(buttons)
    /\ status' = "Lost"
    /\ board_clickable' = FALSE
    /\ game_over_flag' = TRUE

\* check_win (lines 157-165), run on the button grid reveal left.
check_win(btns) ==
    IF unrevealed_buttons(btns) = num_mines
    THEN /\ status' = "Won"
         /\ board_clickable' = FALSE
         /\ game_over_flag' = TRUE
    ELSE UNCHANGED <<status, board_clickable, game_over_flag>>

\* click(row, col) (lines 112-124).
click(row, col) ==
    /\ ~hung
    /\ UNCHANGED <<rows, cols, num_mines, board, mines, hung>>
    /\ IF <<row, col>> \in mines
       THEN /\ game_over
            /\ raised' = "none"
       ELSE IF RevealRaises(row, col)
       THEN /\ raised' = "IndexError"
            /\ UNCHANGED <<buttons, status, board_clickable, game_over_flag>>
       ELSE /\ buttons' = reveal(buttons, row, col)
            /\ check_win(buttons')
            /\ raised' = "none"

\* new_game (lines 47-68) with the three integers get_game_settings returns.
\* The flags of lines 23-24 are not assigned here. No end-of-game dialog has
\* been shown for the new board.
new_game(r, c, m) ==
    /\ ~hung
    /\ rows' = r
    /\ cols' = c
    /\ num_mines' = m
    /\ buttons' = [cell \in Cells(r, c) |-> NewButton]
    /\ status' = "InProgress"
    /\ UNCHANGED <<board_clickable, game_over_flag>>
    /\ IF m > 0 /\ (r <= 0 \/ c <= 0)
       THEN \* random.randint(0, -1) raises ValueError in the first pass
            /\ mines' = {}
            /\ board' = [cell \in Cells(r, c) |-> 0]
            /\ raised' = "ValueError"
            /\ hung' = FALSE
       ELSE IF generate_mines(r, c, m) = {}
       THEN \* more mines than cells: the loop of line 97 never ends
            /\ mines' \in SampleFrom({{}}, Cells(r, c), m)
            /\ board' = [cell \in Cells(r, c) |-> 0]
            /\ raised' = "none"
            /\ hung' = TRUE
       ELSE /\ mines' \in generate_mines(r, c, m)
            /\ board' = update_counts(r, c, mines')
            /\ raised' = "none"
            /\ hung' = FALSE

\* ---------------------------------------------------------- specifications
\* Any three integers the dialogs of get_game_settings (lines 86-88) can
\* return, within the bounds.
AnySettings ==
    { s \in (-1 .. MaxRows) \X (-1 .. MaxCols) \X (-1 .. MaxMines) :
        s[1] * s[2] <= MaxCells }

\* The settings a caller that validates passes: rows > 0, cols > 0,
\* 0 <= mines < rows * cols.
ValidSettings ==
    { s \in AnySettings : s[1] > 0 /\ s[2] > 0 /\ 0 <= s[3] /\ s[3] < s[1] * s[2] }

\* Any two integers a caller can pass to click.
AnyRow == (-(MaxRows + 1)) .. MaxRows

AnyCol == (-(MaxCols + 1)) .. MaxCols

\* __init__ (lines 14-27): the fields of lines 15-24, then new_game.
Init ==
    /\ \E s \in ValidSettings :
          /\ rows = s[1]
          /\ cols = s[2]
          /\ num_mines = s[3]
          /\ mines \in generate_mines(s[1], s[2], s[3])
          /\ board = update_counts(s[1], s[2], mines)
          /\ buttons = [cell \in Cells(s[1], s[2]) |-> NewButton]
    /\ board_clickable = TRUE
    /\ game_over_flag = FALSE
    /\ status = "InProgress"
    /\ raised = "none"
    /\ hung = FALSE
    /\ pc = "idle"
    /\ pending = << >>
    /\ reveals = 0

\* The "New Game" menu command with valid settings.
NewGame ==
    /\ \E s \in ValidSettings : new_game(s[1], s[2], s[3])
    /\ UNCHANGED position

\* A click on a cell of the grid.
Click ==
    /\ \E cell \in Cells(rows, cols) : click(cell[1], cell[2])
    /\ UNCHANGED position

Next == NewGame \/ Click

Spec == Init /\ [][Next]_vars

\* The "New Game" menu command with any settings.
NewGameAny ==
    /\ \E s \in AnySettings : new_game(s[1], s[2], s[3])
    /\ UNCHANGED position

\* click called with any coordinates.
ClickAny ==
    /\ \E row \in AnyRow, col \in AnyCol : click(row, col)
    /\ UNCHANGED position

NextAny == NewGameAny \/ ClickAny

SpecAny == Init /\ [][NextAny]_vars

\* ------------------------------------------------- the handlers, step by step
\* The same handlers with their two loops unfolded: one action per pass of the
\* sampling loop of generate_mines and one per call of reveal.

\* new_game up to the first test of the sampling loop (lines 47-66 and 96),
\* with valid settings.
BeginNewGame(r, c, m) ==
    /\ pc = "idle"
    /\ rows' = r
    /\ cols' = c
    /\ num_mines' = m
    /\ board' = [cell \in Cells(r, c) |-> 0]
    /\ buttons' = [cell \in Cells(r, c) |-> NewButton]
    /\ mines' = {}
    /\ status' = "InProgress"
    /\ pc' = "sampling"
    /\ UNCHANGED <<board_clickable, game_over_flag, raised, hung, pending, reveals>>

\* One pass of the loop of generate_mines (lines 97-99): a cell of the grid is
\* drawn and added. Drawing a cell that is already in the set changes nothing.
DrawMine(cell) ==
    /\ pc = "sampling"
    /\ Cardinality(mines) < num_mines
    /\ mines' = mines \cup {cell}
    /\ UNCHANGED <<rows, cols, num_mines, board, buttons, board_clickable,
                   game_over_flag, status, raised, hung, pc, pending, reveals>>

Sample == \E cell \in Cells(rows, cols) : DrawMine(cell)

\* The loop of generate_mines ends (line 97); update_counts (line 68) runs and
\* new_game returns.
EndNewGame ==
    /\ pc = "sampling"
    /\ ~(Cardinality(mines) < num_mines)
    /\ board' = update_counts(rows, cols, mines)
    /\ pc' = "idle"
    /\ UNCHANGED <<rows, cols, num_mines, mines, buttons, board_clickable,
                   game_over_flag, status, raised, hung, pending, reveals>>

\* click(row, col) up to its first call of reveal (lines 120-123); a click on a
\* mine runs game_over and returns.
BeginClick(row, col) ==
    /\ pc = "idle"
    /\ UNCHANGED <<rows, cols, num_mines, board, mines, raised, hung>>
    /\ IF <<row, col>> \in mines
       THEN /\ game_over
            /\ UNCHANGED position
       ELSE /\ pending' = << <<row, col>> >>
            /\ reveals' = 0
            /\ pc' = "revealing"
            /\ UNCHANGED <<buttons, status, board_clickable, game_over_flag>>

\* reveal without the test of line 135: every call takes its button as NORMAL.
ButtonUntouched(btns, cell) == TRUE

\* The test of line 135 on the button of a call of reveal.
ButtonIsNormal(btns, cell) == btns[cell].state = "normal"

\* One call of reveal (lines 134-144): a NORMAL button is disabled and, when
\* its count is 0, the calls for its neighbours come before the waiting ones.
RevealStep ==
    /\ pc = "revealing"
    /\ pending # << >>
    /\ LET row  == pending[1][1]
           col  == pending[1][2]
           cell == <<PyIndex(rows, row), PyIndex(cols, col)>>
       IN  IF ButtonIsNormal(buttons, cell)
           THEN /\ reveals' = reveals + 1
                /\ IF board[cell] > 0
                   THEN /\ buttons' = [buttons EXCEPT ![cell] =
                               [state |-> "disabled",
                                text  |-> Str(board[cell]),
                                bg    |-> "lightgreen"]]
                        /\ pending' = Tail(pending)
                   ELSE /\ buttons' = [buttons EXCEPT ![cell] =
                               [@ EXCEPT !.state = "disabled",
                                         !.bg = "lightgreen"]]
                        /\ pending' = Neighbours(row, col) \o Tail(pending)
           ELSE /\ pending' = Tail(pending)
                /\ UNCHANGED <<buttons, reveals>>
    /\ UNCHANGED <<rows, cols, num_mines, board, mines, board_clickable,
                   game_over_flag, status, raised, hung, pc>>

\* The first call of reveal has returned: check_win (line 124) runs and click
\* returns.
EndClick ==
    /\ pc = "revealing"
    /\ pending = << >>
    /\ check_win(buttons)
    /\ pc' = "idle"
    /\ reveals' = 0
    /\ UNCHANGED <<rows, cols, num_mines, board, mines, buttons, raised, hung,
                   pending>>

StartNewGame == \E s \in ValidSettings : BeginNewGame(s[1], s[2], s[3])

StartClick == \E cell \in Cells(rows, cols) : BeginClick(cell[1], cell[2])

NextSteps ==
    StartNewGame \/ Sample \/ EndNewGame \/ StartClick \/ RevealStep \/ EndClick

\* A handler that has started runs on: Python executes the next statement.
\* random.randint draws every cell of the grid with positive probability, so
\* the sampling loop does not draw cells of its set for ever.
SpecSteps ==
    /\ Init
    /\ [][NextSteps]_vars
    /\ WF_vars(Sample)
    /\ WF_vars(EndNewGame)
    /\ WF_vars(RevealStep)
    /\ WF_vars(EndClick)

\* ------------------------------------------------------------- vocabulary
\* A cell is Hidden while its button is NORMAL (lines 135, 161).
Hidden == {cell \in DOMAIN buttons : buttons[cell].state = "normal"}

\* A cell is Revealed once its button is DISABLED (lines 138, 140, 151).
Revealed == {cell \in DOMAIN buttons : buttons[cell].state = "disabled"}

\* The in-bounds 8-neighbours of a cell of the grid.
Adjacent(cell) ==
    {n \in Cells(rows, cols) :
        /\ n # cell
        /\ n[1] - cell[1] \in {-1, 0, 1}
        /\ n[2] - cell[2] \in {-1, 0, 1}}

\* The number of mines among the in-bounds 8-neighbours of a cell.
TrueTally(cell) == Cardinality(Adjacent(cell) \cap mines)

\* The non-mine cells without a mine next to them.
ZeroCells == {cell \in Cells(rows, cols) \ mines : TrueTally(cell) = 0}

\* The maximal 8-connected region of zero-count cells that contains the cells
\* of `region`.
RECURSIVE ZeroRegion(_)
ZeroRegion(region) ==
    LET more == region \cup
                {n \in ZeroCells : \E cell \in region : n \in Adjacent(cell)}
    IN  IF more = region THEN region ELSE ZeroRegion(more)

\* A zero region with every in-bounds neighbour of its cells.
FloodSet(cell) ==
    LET region == ZeroRegion({cell})
    IN  region \cup UNION {Adjacent(z) : z \in region}

\* The settings are those of a valid game.
ValidGame == rows > 0 /\ cols > 0 /\ 0 <= num_mines /\ num_mines < rows * cols

\* ------------------------------------------------------------------ claims
\* C1: status is monotonic within one game: a step never takes status from
\* Won to Lost, nor from Lost to Won.
C1_StatusMonotonic ==
    [][/\ status = "Won" => status' # "Lost"
       /\ status = "Lost" => status' # "Won"]_vars

\* C2: when status is Won or Lost, click on any cell of the grid leaves the
\* Hidden/Revealed state of every cell unchanged.
C2_TerminalClickChangesNoCell ==
    [][\A cell \in Cells(rows, cols) :
          (status \in {"Won", "Lost"} /\ click(cell[1], cell[2]))
              => Hidden' = Hidden]_vars

\* C3: in a game with mines < rows * cols, a click on a non-mine cell leaves
\* status Won if and only if the number of Hidden cells after its flood reveal
\* equals num_mines, and status is never Won while the Hidden count differs
\* from num_mines.
C3_WonIffHiddenEqualsMines ==
    [][ValidGame =>
          /\ \A cell \in Cells(rows, cols) \ mines :
                click(cell[1], cell[2])
                    => (status' = "Won" <=> Cardinality(Hidden') = num_mines)
          /\ status' = "Won" => Cardinality(Hidden') = num_mines']_vars

\* C4: while status is InProgress, click on any mine sets status Lost and
\* leaves every cell of the mine set Revealed and showing the mine marker.
C4_MineClickLosesAndShowsAllMines ==
    [][\A cell \in mines :
          (status = "InProgress" /\ click(cell[1], cell[2]))
              => /\ status' = "Lost"
                 /\ \A m \in mines : /\ m \in Revealed'
                                     /\ buttons'[m].text = "*"]_vars

\* C4 witness: a game with two mines was lost, both mines show the marker and
\* a non-mine cell is still Hidden.
C4_Witness ==
    /\ status = "Lost"
    /\ Cardinality(mines) = 2
    /\ \A m \in mines : m \in Revealed /\ buttons[m].text = "*"
    /\ Hidden # {}

\* C5: in a valid game the mine set holds exactly num_mines coordinates, all
\* inside the grid, and every non-mine cell's stored count is in 0..8 and
\* equals the number of mines among its in-bounds 8-neighbours.
C5_MinesAndCounts ==
    ValidGame =>
        /\ Cardinality(mines) = num_mines
        /\ mines \subseteq Cells(rows, cols)
        /\ \A cell \in Cells(rows, cols) \ mines :
              /\ board[cell] \in 0 .. 8
              /\ board[cell] = TrueTally(cell)

\* C5 witness: a valid game with two mines in which a cell on the last column
\* counts both and another non-mine cell counts none.
C5_Witness ==
    /\ ValidGame
    /\ num_mines = 2
    /\ \E cell \in Cells(rows, cols) \ mines :
          cell[2] = cols - 1 /\ board[cell] = 2
    /\ \E cell \in Cells(rows, cols) \ mines : board[cell] = 0

\* C6: a new game started from any state leaves every cell Hidden, the counts
\* those of the new mine set, status InProgress, and no end-of-game indication
\* of the previous game (board_clickable is TRUE, game_over_flag is FALSE).
C6_NewGameResetsEverything ==
    [][NewGame =>
          /\ Hidden' = Cells(rows', cols')
          /\ board' = update_counts(rows', cols', mines')
          /\ status' = "InProgress"
          /\ board_clickable' = TRUE
          /\ game_over_flag' = FALSE]_vars

\* C7: while status is InProgress, click on a Hidden non-mine cell of count 0
\* reveals exactly the maximal 8-connected region of zero-count cells around
\* it and every in-bounds neighbour of that region; every other cell keeps
\* its state.
C7_FloodRevealsRegionAndBorder ==
    [][\A cell \in Hidden \ mines :
          (status = "InProgress" /\ board[cell] = 0 /\ click(cell[1], cell[2]))
              => Revealed' = Revealed \cup FloodSet(cell)]_vars

\* C7 witness: in a game in progress a zero-count cell is Revealed, with its
\* whole flood set, and a non-mine cell outside the flood set is still Hidden.
C7_Witness ==
    /\ status = "InProgress"
    /\ \E cell \in Revealed \ mines :
          /\ board[cell] = 0
          /\ FloodSet(cell) \subseteq Revealed
          /\ Cardinality(ZeroRegion({cell})) >= 2
          /\ \E other \in Hidden \ mines : other \notin FloodSet(cell)

\* C8: click on a Revealed non-mine cell changes neither status nor any
\* cell's Hidden/Revealed state, in every reachable state.
C8_RevealedClickIsNoOp ==
    [][\A cell \in Revealed \ mines :
          click(cell[1], cell[2])
              => (status' = status /\ Hidden' = Hidden)]_vars

\* The settings the claims call invalid: a non-positive dimension, or as many
\* mines as cells or more.
InvalidSettings == {s \in AnySettings : s[1] <= 0 \/ s[2] <= 0 \/ s[3] >= s[1] * s[2]}

\* C9: new_game with invalid settings ends with an error and starts no game.
C9_InvalidSettingsFailFast ==
    [][\A s \in InvalidSettings :
          new_game(s[1], s[2], s[3]) => (raised' # "none" /\ ~hung')]_vars

\* The coordinates outside [0, rows) x [0, cols).
OutOfBounds(row, col) == ~(0 <= row /\ row < rows /\ 0 <= col /\ col < cols)

\* C10: click with a coordinate outside the grid, negative ones included,
\* ends with an error and changes neither a cell nor status.
C10_OutOfBoundsClickFails ==
    [][\A row \in AnyRow, col \in AnyCol :
          (OutOfBounds(row, col) /\ click(row, col))
              => /\ raised' # "none"
                 /\ buttons' = buttons
                 /\ status' = status]_vars

GameState ==
    <<rows, cols, num_mines, board, mines, buttons, board_clickable,
      game_over_flag, status>>

\* The fields as __init__ sets them before its first new_game (lines 15-24):
\* the only state without a game that the code has.
Uninitialized ==
    /\ rows = 0 /\ cols = 0 /\ num_mines = 0
    /\ DOMAIN board = {} /\ DOMAIN buttons = {} /\ mines = {}
    /\ board_clickable = TRUE /\ game_over_flag = FALSE

\* C12: a new_game that ends with an error leaves the previous game untouched
\* or leaves the uninitialized state, never a partly replaced game.
C12_FailedNewGameLeavesNoPartialGame ==
    [][\A s \in AnySettings :
          (new_game(s[1], s[2], s[3]) /\ raised' # "none")
              => (GameState' = GameState \/ Uninitialized')]_vars

\* C13: within one game no click takes a cell from Revealed back to Hidden.
C13_RevealedIsTerminal ==
    [][(\E cell \in Cells(rows, cols) : click(cell[1], cell[2]))
          => Revealed \subseteq Revealed']_vars

\* C13 witness: a non-mine cell is still Revealed after a further click, the
\* losing one, has redrawn the mines.
C13_Witness ==
    /\ status = "Lost"
    /\ \E cell \in Revealed \ mines : buttons[cell].text # ""
    /\ Hidden # {}

\* C14: while status is InProgress, click on a Hidden non-mine cell whose count
\* is above 0 reveals that cell and leaves every other cell as it was.
C14_NumberedCellRevealsOnlyItself ==
    [][\A cell \in Hidden \ mines :
          (status = "InProgress" /\ board[cell] > 0 /\ click(cell[1], cell[2]))
              => /\ Revealed' = Revealed \cup {cell}
                 /\ Hidden' = Hidden \ {cell}]_vars

\* C14 witness: in a game in progress the only Revealed cell shows a count
\* above 0 and has a Hidden non-mine neighbour.
C14_Witness ==
    /\ status = "InProgress"
    /\ \E cell \in Cells(rows, cols) \ mines :
          /\ Revealed = {cell}
          /\ board[cell] > 0
          /\ buttons[cell].text = Str(board[cell])
          /\ \E n \in Adjacent(cell) \ mines : n \in Hidden

\* The subsets of S with k elements.
KSubsets(S, k) == {x \in SUBSET S : Cardinality(x) = k}

\* C15: for valid settings the mine sets generate_mines can end with are
\* exactly the subsets of the grid with num_mines cells, and the mine set of
\* the game is one of them.
C15_SamplingReachesExactlyAllSubsets ==
    ValidGame =>
        /\ generate_mines(rows, cols, num_mines)
               = KSubsets(Cells(rows, cols), num_mines)
        /\ mines \in KSubsets(Cells(rows, cols), num_mines)

\* C15 witness: a game of six cells and two mines, whose mine set is one of
\* the fifteen that generate_mines can end with.
C15_Witness ==
    /\ ValidGame
    /\ rows * cols = 6
    /\ num_mines = 2
    /\ Cardinality(generate_mines(rows, cols, num_mines)) = 15
    /\ mines \in generate_mines(rows, cols, num_mines)

\* C16: while status is InProgress no mine cell is Revealed.
C16_NoMineRevealedInProgress ==
    status = "InProgress" => mines \cap Revealed = {}

\* C16 witness: in a game in progress a flood reveal has stopped next to a
\* mine, and every mine is Hidden.
C16_Witness ==
    /\ status = "InProgress"
    /\ mines # {}
    /\ mines \subseteq Hidden
    /\ \E zero \in Revealed : board[zero] = 0
    /\ \E m \in mines : Adjacent(m) \cap Revealed # {}

\* C17: whenever status is Won, the Hidden cells are exactly the mine cells.
C17_WonHidesExactlyTheMines ==
    status = "Won" => Hidden = mines

\* C18: every Revealed non-mine cell of count 0 has all its in-bounds
\* 8-neighbours Revealed.
C18_RevealedClosedUnderFlood ==
    \A cell \in Revealed \ mines :
        board[cell] = 0 => Adjacent(cell) \subseteq Revealed

\* C18 witness: after a loss a Revealed zero-count cell has all its neighbours
\* Revealed while another non-mine cell is Hidden.
C18_Witness ==
    /\ status = "Lost"
    /\ \E cell \in Revealed \ mines :
          /\ board[cell] = 0
          /\ Adjacent(cell) # {}
          /\ Adjacent(cell) \subseteq Revealed
    /\ Hidden \ mines # {}

\* click on a non-mine cell of the grid (lines 122-124), as a function of the
\* button grid and the status it starts from: reveal, then check_win.
click_safe(game, cell) ==
    LET btns == reveal(game.buttons, cell[1], cell[2])
    IN  [buttons |-> btns,
         status  |-> IF unrevealed_buttons(btns) = num_mines
                     THEN "Won" ELSE game.status]

\* C19: from a state in progress, clicking two non-mine cells in either order
\* ends with the same Revealed cells and the same status.
C19_SafeClicksCommute ==
    status = "InProgress" =>
        \A a, b \in Cells(rows, cols) \ mines :
            LET now == [buttons |-> buttons, status |-> status]
                ab  == click_safe(click_safe(now, a), b)
                ba  == click_safe(click_safe(now, b), a)
            IN  /\ {c \in DOMAIN ab.buttons : ab.buttons[c].state = "disabled"}
                     = {c \in DOMAIN ba.buttons : ba.buttons[c].state = "disabled"}
                /\ ab.status = ba.status

\* C19 witness: a game in progress with a Revealed cell, in which a Hidden
\* zero-count cell and a Hidden numbered cell can be clicked in two orders,
\* and doing so wins the game.
C19_Witness ==
    /\ status = "InProgress"
    /\ Revealed # {}
    /\ \E a, b \in Hidden \ mines :
          /\ board[a] = 0
          /\ board[b] > 0
          /\ click_safe(click_safe([buttons |-> buttons, status |-> status],
                                   a), b).status = "Won"

====
